---- MODULE Spec2Model ----
(***************************************************************************)
(* Pandora Weather Scanner (src/pandoraproject.py): the weather endpoint   *)
(* get_weather, its in-memory cache WEATHER_CACHE and the remote client    *)
(* get_weather_from_api, as a state machine.                               *)
(*                                                                         *)
(* Five specifications share the state and the handler's actions:          *)
(*   Spec      get_weather requests served one at a time                   *)
(*   SpecCache get_cached_weather and set_cached_weather called directly   *)
(*   SpecConc  get_weather requests served by two threads at once          *)
(*   SpecHttp  requests for any path, dispatched by the route table        *)
(*   SpecLive  concurrent requests under a fair scheduler                  *)
(*                                                                         *)
(* Python values are tagged records, one tag per Python type, so that two  *)
(* values of different types are different values:                         *)
(*   None  [t |-> "null"]          numbers [t |-> "num", n |-> thousandths] *)
(*   str   [t |-> "str", s |-> ..]  list    [t |-> "list", l |-> <<..>>]    *)
(*   dict  [t |-> "obj", o |-> [key |-> value, ...]]                        *)
(* A number is held as an integer count of thousandths (1013.125 is        *)
(* 1013125), which is exact for every number the model uses.               *)
(***************************************************************************)
EXTENDS Integers, Sequences, FiniteSets, TLC

VARIABLES
    WEATHER_CACHE,  \* src:160  location key -> [data, timestamp]
    now,            \* the clock read by time(), in seconds
    pc,             \* per worker thread: where its get_weather request stands
    location_key,   \* per thread: the <location_key> of the request's URL
    cached_data,    \* per thread: get_weather's local cached_data
    upstream,       \* per thread: the reply the forecast service gave the request
    api_data,       \* per thread: get_weather's local api_data
    response_data,  \* per thread: get_weather's local response_data
    response,       \* per thread: what the handler returned (status, body)
    raised,         \* per thread: the exception that left the handler, or "none"
    events,         \* per thread: the cache and remote operations of the request, in order
    last_set,       \* per key: the latest set_cached_weather call: its payload, its
                    \* clock, and the payload it replaced (None when the key was free)
    loaded,         \* per thread: get_cached_weather's locals data, timestamp (src:363)
    path            \* per thread: the URL path of the request, as its segments

vars == <<WEATHER_CACHE, now, pc, location_key, cached_data, upstream, api_data,
          response_data, response, raised, events, last_set, loaded, path>>

(***************************************************************************)
(* Python values                                                           *)
(***************************************************************************)
None == [t |-> "null"]
Num(n) == [t |-> "num", n |-> n]
Str(s) == [t |-> "str", s |-> s]
List(l) == [t |-> "list", l |-> l]
Obj(o) == [t |-> "obj", o |-> o]
EmptyDict == Obj([x \in {} |-> None])

\* The result of evaluating a Python expression: a value, or an exception.
Val(v) == [exc |-> "none", v |-> v]
Exc(e) == [exc |-> e, v |-> None]

\* bool(v), as `if v:` and `x if v else y` test it.
Truthy(v) ==
    CASE v.t = "null" -> FALSE
      [] v.t = "num"  -> v.n # 0
      [] v.t = "str"  -> v.s # ""
      [] v.t = "list" -> Len(v.l) > 0
      [] v.t = "obj"  -> DOMAIN v.o # {}

\* d.get(key, default): only a dict has the method.
DictGet(d, key, default) ==
    IF d.t # "obj" THEN Exc("AttributeError")
    ELSE IF key \in DOMAIN d.o THEN Val(d.o[key])
    ELSE Val(default)

\* The first character of the strings the remote replies of the model hold.
FirstChar(s) == CASE s = "n/a" -> "n"
                  [] s = "1013.25" -> "1"
                  [] OTHER -> s

\* v[0]
Index0(v) ==
    CASE v.t = "list" -> IF Len(v.l) > 0 THEN Val(v.l[1]) ELSE Exc("IndexError")
      [] v.t = "str"  -> IF v.s # "" THEN Val(Str(FirstChar(v.s))) ELSE Exc("IndexError")
      [] v.t = "obj"  -> Exc("KeyError")
      [] OTHER        -> Exc("TypeError")

\* round(x, 2) of a number held in thousandths: to the nearest hundredth, a tie
\* going to the even hundredth (the model's numbers are binary fractions, for
\* which the decimal tie is the float's tie).
RoundThousandths(n) ==
    LET q == n \div 10
        r == n % 10
    IN  IF r < 5 THEN 10 * q
        ELSE IF r > 5 THEN 10 * (q + 1)
        ELSE IF q % 2 = 0 THEN 10 * q ELSE 10 * (q + 1)

\* round(v, 2): defined on numbers only.
Round2(v) ==
    IF v.t = "num" THEN Val(Num(RoundThousandths(v.n))) ELSE Exc("TypeError")

(***************************************************************************)
(* Static registry and cache settings                                      *)
(***************************************************************************)
\* src:99-152.  lat and lon in hundredths of a degree.
LOCATIONS ==
    [hallelujah_mountains |->
        [name |-> "Hallelujah Mountains", lat |-> 2913, lon |-> 11048,
         image |-> "https://miro.medium.com/v2/resize:fit:1400/format:webp/1*PPxE0RqyWyLXb8wAliU15g.jpeg",
         status |-> "Stable", status_color |-> "green"],
     eastern_sea |->
        [name |-> "Eastern Sea", lat |-> 320, lon |-> 7322,
         image |-> "static/eastern_sea.png",
         status |-> "RDA Activity Detected", status_color |-> "red"]]

\* src:167, seconds.
CACHE_DURATION == 10

\* The empty dict WEATHER_CACHE starts as (src:160).
EmptyCache == [k \in {} |-> [data |-> None, timestamp |-> 0]]

(***************************************************************************)
(* Weather cache (src:340-427).  The clock value t is what time() returns  *)
(* when the function reads it.                                             *)
(***************************************************************************)
\* Faulty variant: an entry exactly CACHE_DURATION old still counts as fresh.
IsFresh_Inclusive(timestamp, t) == t - timestamp <= CACHE_DURATION

\* Faulty variant: the comparison the wrong way round.
IsFresh_Inverted(timestamp, t) == t - timestamp > CACHE_DURATION

\* `time() - timestamp < CACHE_DURATION` (src:374)
IsFresh(timestamp, t) == t - timestamp < CACHE_DURATION

\* Faulty variant: eviction empties the whole cache (WEATHER_CACHE.clear()).
CacheDelete_Clear(cache, key) == EmptyCache

\* Faulty variant: the expired entry is left in place.
CacheDelete_Kept(cache, key) == cache

\* `del WEATHER_CACHE[location_key]` (src:390)
CacheDelete(cache, key) == [k \in DOMAIN cache \ {key} |-> cache[k]]

\* get_cached_weather: the value returned and the cache it leaves.
get_cached_weather(cache, key, t) ==
    IF key \in DOMAIN cache
    THEN LET data == cache[key].data
             timestamp == cache[key].timestamp
         IN  IF IsFresh(timestamp, t)
             THEN [ret |-> data, cache |-> cache]
             ELSE [ret |-> None, cache |-> CacheDelete(cache, key)]
    ELSE [ret |-> None, cache |-> cache]

\* Faulty variant: the entry is stored under the payload's display name.
set_cached_weather_ByName(cache, key, data, t) ==
    [k \in DOMAIN cache \cup {data.o.location.s} |->
        IF k = data.o.location.s THEN [data |-> data, timestamp |-> t] ELSE cache[k]]

\* Faulty variant: an entry already stored under the key is kept (setdefault).
set_cached_weather_KeepFirst(cache, key, data, t) ==
    [k \in DOMAIN cache \cup {key} |->
        IF k \in DOMAIN cache THEN cache[k] ELSE [data |-> data, timestamp |-> t]]

\* set_cached_weather: `WEATHER_CACHE[location_key] = (data, time())`
set_cached_weather(cache, key, data, t) ==
    [k \in DOMAIN cache \cup {key} |->
        IF k = key THEN [data |-> data, timestamp |-> t] ELSE cache[k]]

(***************************************************************************)
(* Remote weather client (src:179-331).  A reply is what the network and   *)
(* the forecast service do with the request:                               *)
(*   transport  "ok", or the exception requests.get raises                 *)
(*   status     the HTTP status of the response                            *)
(*   body       the value the body parses to, or NotJson                   *)
(*   json_exc   the exception response.json() raises on a body that does   *)
(*              not parse: requests.exceptions.JSONDecodeError (requests   *)
(*              2.27 and later) or a plain ValueError (before)             *)
(***************************************************************************)
NotJson == [t |-> "notjson"]

\* The direct base classes of the exceptions a request raises.
Bases(c) ==
    CASE c = "ConnectTimeout"   -> {"ConnectionError", "Timeout"}
      [] c = "ReadTimeout"      -> {"Timeout"}
      [] c = "Timeout"          -> {"RequestException"}
      [] c = "ConnectionError"  -> {"RequestException"}
      [] c = "HTTPError"        -> {"RequestException"}
      [] c = "InvalidJSONError" -> {"RequestException"}
      [] c = "JSONDecodeError"  -> {"InvalidJSONError", "ValueError"}
      [] c = "RequestException" -> {"OSError"}
      [] OTHER                  -> {}

\* isinstance(an exception of class c, cls), as an except clause tests it.
RECURSIVE IsInstance(_, _)
IsInstance(c, cls) == c = cls \/ \E b \in Bases(c) : IsInstance(b, cls)

\* The try block (src:249-279): requests.get, raise_for_status, response.json().
TryRequest(reply) ==
    IF reply.transport # "ok" THEN Exc(reply.transport)
    ELSE IF reply.status >= 400 /\ reply.status < 600 THEN Exc("HTTPError")
    ELSE IF reply.body = NotJson THEN Exc(reply.json_exc)
    ELSE Val(reply.body)

\* Faulty variant: the `except ValueError` clause is missing.
ExceptClauses_NoValueError == <<"Timeout", "RequestException">>

\* The except clauses in source order (src:286, 305, 322); each returns None.
ExceptClauses == <<"Timeout", "RequestException", "ValueError">>

\* get_weather_from_api(lat, lon): the value returned, or the exception that
\* no clause caught.
get_weather_from_api(lat, lon, reply) ==
    LET tried == TryRequest(reply)
    IN  IF tried.exc = "none" THEN tried
        ELSE IF \E i \in 1..Len(ExceptClauses) : IsInstance(tried.exc, ExceptClauses[i])
             THEN Val(None)
             ELSE tried

(***************************************************************************)
(* get_weather's transform (src:610-691)                                   *)
(***************************************************************************)
\* Faulty variant: the series is indexed without the test, with [0] as its default.
FirstSample_ZeroDefault(hourly_data, name) ==
    LET series == DictGet(hourly_data, name, List(<<Num(0)>>))
    IN  IF series.exc # "none" THEN series ELSE Index0(series.v)

\* `hourly_data.get(name, [None])[0] if hourly_data.get(name) else None`
\* (src:627, 631)
FirstSample(hourly_data, name) ==
    LET test == DictGet(hourly_data, name, None)
    IN  IF test.exc # "none" THEN test
        ELSE IF Truthy(test.v)
             THEN LET series == DictGet(hourly_data, name, List(<<None>>))
                  IN  IF series.exc # "none" THEN series ELSE Index0(series.v)
             ELSE Val(None)

\* `round(pressure, 2) if pressure else None` (src:675)
PressureField(pressure) ==
    IF Truthy(pressure) THEN Round2(pressure) ELSE Val(None)

\* response_data as src:610-691 builds it from the registry entry and the
\* remote payload, or the exception raised on the way.
BuildResponseData(target, data) ==
    LET current_weather == DictGet(data, "current_weather", EmptyDict)
    IN  IF current_weather.exc # "none" THEN current_weather ELSE
    LET hourly_data == DictGet(data, "hourly", EmptyDict)
    IN  IF hourly_data.exc # "none" THEN hourly_data ELSE
    LET humidity == FirstSample(hourly_data.v, "relativehumidity_2m")
    IN  IF humidity.exc # "none" THEN humidity ELSE
    LET pressure == FirstSample(hourly_data.v, "pressure_msl")
    IN  IF pressure.exc # "none" THEN pressure ELSE
    LET temperature == DictGet(current_weather.v, "temperature", None)
        windspeed == DictGet(current_weather.v, "windspeed", None)
        winddirection == DictGet(current_weather.v, "winddirection", None)
        weathercode == DictGet(current_weather.v, "weathercode", None)
    IN  IF temperature.exc # "none" THEN temperature ELSE
    LET rounded == PressureField(pressure.v)
    IN  IF rounded.exc # "none" THEN rounded ELSE
        Val(Obj([location |-> Str(target.name),
                 temp |-> temperature.v,
                 wind |-> windspeed.v,
                 wind_direction |-> winddirection.v,
                 weather_code |-> weathercode.v,
                 humidity |-> humidity.v,
                 pressure |-> rounded.v,
                 image |-> Str(target.image),
                 status |-> Str(target.status),
                 status_color |-> Str(target.status_color)]))

\* The 404 body (src:542-545).
NotFoundMessage(key) ==
    CASE key = "neytiri" -> "Location 'neytiri' not found"
      [] key = "Eastern_Sea" -> "Location 'Eastern_Sea' not found"
      [] key = "hallelujah_mountains" -> "Location 'hallelujah_mountains' not found"
      [] key = "eastern_sea" -> "Location 'eastern_sea' not found"

InvalidLocationBody(key) ==
    Obj([error |-> Str("Invalid location"), message |-> Str(NotFoundMessage(key))])

\* Faulty variant: the 500 body without the display name.
UnavailableBody_NoLocation(target) ==
    Obj([error |-> Str("Weather service unavailable"),
         message |-> Str("Failed to fetch weather data. Please try again later.")])

\* The 500 body (src:596-600).
UnavailableBody(target) ==
    Obj([error |-> Str("Weather service unavailable"),
         message |-> Str("Failed to fetch weather data. Please try again later."),
         location |-> Str(target.name)])

(***************************************************************************)
(* Bounds and inputs                                                       *)
(***************************************************************************)
\* The clock stops advancing here.
MaxTime == 16

\* The clock advances by half the TTL, or by a second more: an entry is read
\* at ages below, equal to and above the TTL.
TickSteps == {CACHE_DURATION \div 2, CACHE_DURATION \div 2 + 1}

\* The worker threads of the server.
Threads == {1, 2}

\* Keys a client asks for: the registry's, and two it does not hold.
UnknownKeys == {"neytiri", "Eastern_Sea"}
RequestKeys == DOMAIN LOCATIONS \cup UnknownKeys

\* Remote payloads.  The current_weather block of a forecast:
CurrentWeather ==
    Obj([temperature |-> Num(21500), windspeed |-> Num(7200),
         winddirection |-> Num(180000), weathercode |-> Num(3000)])

Hourly(humidity, pressure) ==
    Obj([relativehumidity_2m |-> humidity, pressure_msl |-> pressure])

Forecast(hourly) == Obj([current_weather |-> CurrentWeather, hourly |-> hourly])

\* a complete forecast; 1013.125 hPa lies halfway between two hundredths
FullBody == Forecast(Hourly(List(<<Num(65000), Num(70000)>>),
                            List(<<Num(1013125), Num(1012000)>>)))
\* first samples equal to 0
ZeroBody == Forecast(Hourly(List(<<Num(0)>>), List(<<Num(0), Num(1012000)>>)))
\* no hourly block at all
NoHourlyBody == Obj([current_weather |-> CurrentWeather])
\* empty hourly arrays
EmptyArraysBody == Forecast(Hourly(List(<<>>), List(<<>>)))
\* an hourly block without the pressure series
NoPressureBody ==
    Forecast(Obj([relativehumidity_2m |-> List(<<Num(65000)>>)]))
\* a null first humidity sample; 1013.375 hPa, halfway again
NullSampleBody == Forecast(Hourly(List(<<None, Num(70000)>>), List(<<Num(1013375)>>)))
\* no current_weather block
NoCurrentBody ==
    Obj([hourly |-> Hourly(List(<<Num(65000)>>), List(<<Num(1009876)>>))])
\* JSON null, and bodies that are not the documented object
NullBody == None
ListBody == List(<<>>)
CurrentNullBody == Obj([current_weather |-> None])
HourlyNullBody == Obj([current_weather |-> CurrentWeather, hourly |-> None])
PressureStrBody == Forecast(Hourly(List(<<Num(65000)>>), List(<<Str("1013.25")>>)))
SeriesStrBody == Forecast(Hourly(List(<<Num(65000)>>), Str("n/a")))

Bodies ==
    {FullBody, ZeroBody, NoHourlyBody, EmptyArraysBody, NoPressureBody,
     NullSampleBody, NoCurrentBody, NullBody, ListBody, CurrentNullBody,
     HourlyNullBody, PressureStrBody, SeriesStrBody}

Reply(transport, status, body, json_exc) ==
    [transport |-> transport, status |-> status, body |-> body, json_exc |-> json_exc]

\* No reply yet.
NoReply == Reply("none", 0, NotJson, "ValueError")

Replies ==
    {Reply(e, 0, NotJson, "ValueError") : e \in {"ConnectTimeout", "ReadTimeout", "ConnectionError"}}
    \cup {Reply("ok", 503, NotJson, "ValueError"), Reply("ok", 404, FullBody, "ValueError")}
    \cup {Reply("ok", 200, NotJson, x) : x \in {"JSONDecodeError", "ValueError"}}
    \cup {Reply("ok", 200, b, "ValueError") : b \in Bodies}

(***************************************************************************)
(* The get_weather handler (src:510-704), one action per stage, for the    *)
(* request that thread t serves.                                           *)
(***************************************************************************)
NoResponse == [status |-> 0, body |-> None]
HttpResponse(status, body) == [status |-> status, body |-> body]

\* get_cached_weather has not unpacked an entry (src:363) in this request.
NotLoaded == [data |-> None, timestamp |-> 0]

\* No request: the thread is idle.
NoPath == <<>>

\* The path /get_weather/<key>, as its segments.
WeatherPath(key) == <<"get_weather", key>>

\* A request for /get_weather/<key> reaches an idle thread.
Receive(t, key) ==
    /\ pc[t] = "idle"
    /\ pc' = [pc EXCEPT ![t] = "validate"]
    /\ path' = [path EXCEPT ![t] = WeatherPath(key)]
    /\ location_key' = [location_key EXCEPT ![t] = key]
    /\ UNCHANGED <<WEATHER_CACHE, now, cached_data, upstream, api_data,
                   response_data, response, raised, events, last_set, loaded>>

\* Faulty variant: the registry check left out.
Validate_Unchecked(t) ==
    /\ pc[t] = "validate"
    /\ pc' = [pc EXCEPT ![t] = "cache_check"]
    /\ UNCHANGED <<WEATHER_CACHE, now, location_key, cached_data, upstream, api_data,
                   response_data, response, raised, events, last_set, loaded, path>>

\* src:532-552: `if location_key not in LOCATIONS: return ..., 404`
Validate(t) ==
    /\ pc[t] = "validate"
    /\ IF location_key[t] \notin DOMAIN LOCATIONS
       THEN /\ response' = [response EXCEPT
                              ![t] = HttpResponse(404, InvalidLocationBody(location_key[t]))]
            /\ pc' = [pc EXCEPT ![t] = "done"]
       ELSE /\ pc' = [pc EXCEPT ![t] = "cache_check"]
            /\ UNCHANGED response
    /\ UNCHANGED <<WEATHER_CACHE, now, location_key, cached_data, upstream, api_data,
                   response_data, raised, events, last_set, loaded, path>>

\* src:564-576: `cached_data = get_cached_weather(location_key)`, then
\* `if cached_data: return jsonify(cached_data)`
CheckCache(t) ==
    /\ pc[t] = "cache_check"
    /\ LET key == location_key[t]
           got == get_cached_weather(WEATHER_CACHE, key, now)
           evicted == key \in DOMAIN WEATHER_CACHE /\ key \notin DOMAIN got.cache
       IN  /\ WEATHER_CACHE' = got.cache
           /\ cached_data' = [cached_data EXCEPT ![t] = got.ret]
           /\ events' = [events EXCEPT
                           ![t] = @ \o <<"cache_read">> \o
                                  (IF evicted THEN <<"cache_evict">> ELSE <<>>)]
           /\ IF Truthy(got.ret)
              THEN /\ response' = [response EXCEPT ![t] = HttpResponse(200, got.ret)]
                   /\ pc' = [pc EXCEPT ![t] = "done"]
              ELSE /\ pc' = [pc EXCEPT ![t] = "remote_fetch"]
                   /\ UNCHANGED response
    /\ UNCHANGED <<now, location_key, upstream, api_data, response_data, raised,
                   last_set, loaded, path>>

\* src:583: `api_data = get_weather_from_api(target['lat'], target['lon'])`
RemoteFetch(t, reply) ==
    /\ pc[t] = "remote_fetch"
    /\ LET target == LOCATIONS[location_key[t]]
           got == get_weather_from_api(target.lat, target.lon, reply)
       IN  /\ upstream' = [upstream EXCEPT ![t] = reply]
           /\ events' = [events EXCEPT ![t] = @ \o <<"api_call">>]
           /\ IF got.exc # "none"
              THEN /\ raised' = [raised EXCEPT ![t] = got.exc]
                   /\ pc' = [pc EXCEPT ![t] = "done"]
                   /\ UNCHANGED api_data
              ELSE /\ api_data' = [api_data EXCEPT ![t] = got.v]
                   /\ pc' = [pc EXCEPT ![t] = "transform"]
                   /\ UNCHANGED raised
    /\ UNCHANGED <<WEATHER_CACHE, now, location_key, cached_data, response_data,
                   response, last_set, loaded, path>>

\* Faulty variant: the error body is passed on to the cache write.
Transform_CacheError(t) ==
    /\ pc[t] = "transform"
    /\ LET target == LOCATIONS[location_key[t]]
           built == BuildResponseData(target, api_data[t])
       IN  IF api_data[t] = None
           THEN /\ response_data' = [response_data EXCEPT ![t] = UnavailableBody(target)]
                /\ pc' = [pc EXCEPT ![t] = "cache_write"]
                /\ UNCHANGED <<response, raised>>
           ELSE IF built.exc # "none"
           THEN /\ raised' = [raised EXCEPT ![t] = built.exc]
                /\ pc' = [pc EXCEPT ![t] = "done"]
                /\ UNCHANGED <<response_data, response>>
           ELSE /\ response_data' = [response_data EXCEPT ![t] = built.v]
                /\ pc' = [pc EXCEPT ![t] = "cache_write"]
                /\ UNCHANGED <<response, raised>>
    /\ UNCHANGED <<WEATHER_CACHE, now, location_key, cached_data, upstream, api_data,
                   events, last_set, loaded, path>>

\* Faulty variant: an absent payload sends the request back to the remote call.
Transform_Retry(t) ==
    /\ pc[t] = "transform"
    /\ LET target == LOCATIONS[location_key[t]]
           built == BuildResponseData(target, api_data[t])
       IN  IF api_data[t] = None
           THEN /\ pc' = [pc EXCEPT ![t] = "remote_fetch"]
                /\ UNCHANGED <<response_data, response, raised>>
           ELSE IF built.exc # "none"
           THEN /\ raised' = [raised EXCEPT ![t] = built.exc]
                /\ pc' = [pc EXCEPT ![t] = "done"]
                /\ UNCHANGED <<response_data, response>>
           ELSE /\ response_data' = [response_data EXCEPT ![t] = built.v]
                /\ pc' = [pc EXCEPT ![t] = "cache_write"]
                /\ UNCHANGED <<response, raised>>
    /\ UNCHANGED <<WEATHER_CACHE, now, location_key, cached_data, upstream, api_data,
                   events, last_set, loaded, path>>

\* src:590-691: `if api_data is None: return ..., 500`, else build response_data
Transform(t) ==
    /\ pc[t] = "transform"
    /\ LET target == LOCATIONS[location_key[t]]
           built == BuildResponseData(target, api_data[t])
       IN  IF api_data[t] = None
           THEN /\ response' = [response EXCEPT
                                  ![t] = HttpResponse(500, UnavailableBody(target))]
                /\ pc' = [pc EXCEPT ![t] = "done"]
                /\ UNCHANGED <<response_data, raised>>
           ELSE IF built.exc # "none"
           THEN /\ raised' = [raised EXCEPT ![t] = built.exc]
                /\ pc' = [pc EXCEPT ![t] = "done"]
                /\ UNCHANGED <<response_data, response>>
           ELSE /\ response_data' = [response_data EXCEPT ![t] = built.v]
                /\ pc' = [pc EXCEPT ![t] = "cache_write"]
                /\ UNCHANGED <<response, raised>>
    /\ UNCHANGED <<WEATHER_CACHE, now, location_key, cached_data, upstream, api_data,
                   events, last_set, loaded, path>>

\* The record of a set_cached_weather(key, data) call made now.
Recorded(key, data) ==
    [k \in DOMAIN last_set \cup {key} |->
        IF k = key
        THEN [data |-> data, timestamp |-> now,
              replaced |-> IF key \in DOMAIN WEATHER_CACHE
                           THEN WEATHER_CACHE[key].data ELSE None]
        ELSE last_set[k]]

\* src:698: `set_cached_weather(location_key, response_data)`
CacheWrite(t) ==
    /\ pc[t] = "cache_write"
    /\ WEATHER_CACHE' = set_cached_weather(WEATHER_CACHE, location_key[t],
                                           response_data[t], now)
    /\ last_set' = Recorded(location_key[t], response_data[t])
    /\ events' = [events EXCEPT ![t] = @ \o <<"cache_write">>]
    /\ pc' = [pc EXCEPT ![t] = "respond"]
    /\ UNCHANGED <<now, location_key, cached_data, upstream, api_data,
                   response_data, response, raised, loaded, path>>

\* Faulty variant: the upstream payload is returned instead of response_data.
Respond_Raw(t) ==
    /\ pc[t] = "respond"
    /\ response' = [response EXCEPT ![t] = HttpResponse(200, api_data[t])]
    /\ pc' = [pc EXCEPT ![t] = "done"]
    /\ UNCHANGED <<WEATHER_CACHE, now, location_key, cached_data, upstream, api_data,
                   response_data, raised, events, last_set, loaded, path>>

\* src:704: `return jsonify(response_data)`
Respond(t) ==
    /\ pc[t] = "respond"
    /\ response' = [response EXCEPT ![t] = HttpResponse(200, response_data[t])]
    /\ pc' = [pc EXCEPT ![t] = "done"]
    /\ UNCHANGED <<WEATHER_CACHE, now, location_key, cached_data, upstream, api_data,
                   response_data, raised, events, last_set, loaded, path>>

\* The response (or the exception) has left the handler; the thread is free
\* again and the request's locals are gone.
Finish(t) ==
    /\ pc[t] = "done"
    /\ pc' = [pc EXCEPT ![t] = "idle"]
    /\ location_key' = [location_key EXCEPT ![t] = ""]
    /\ cached_data' = [cached_data EXCEPT ![t] = None]
    /\ upstream' = [upstream EXCEPT ![t] = NoReply]
    /\ api_data' = [api_data EXCEPT ![t] = None]
    /\ response_data' = [response_data EXCEPT ![t] = None]
    /\ response' = [response EXCEPT ![t] = NoResponse]
    /\ raised' = [raised EXCEPT ![t] = "none"]
    /\ events' = [events EXCEPT ![t] = <<>>]
    /\ loaded' = [loaded EXCEPT ![t] = NotLoaded]
    /\ path' = [path EXCEPT ![t] = NoPath]
    /\ UNCHANGED <<WEATHER_CACHE, now, last_set>>

\* Faulty variant: a sweep removes the expired entries as time passes.
Tick_Sweep(d) ==
    /\ now + d <= MaxTime
    /\ now' = now + d
    /\ WEATHER_CACHE' =
          [k \in {j \in DOMAIN WEATHER_CACHE :
                     IsFresh(WEATHER_CACHE[j].timestamp, now + d)} |-> WEATHER_CACHE[k]]
    /\ UNCHANGED <<pc, location_key, cached_data, upstream, api_data,
                   response_data, response, raised, events, last_set, loaded, path>>

\* Time passes.
Tick(d) ==
    /\ now + d <= MaxTime
    /\ now' = now + d
    /\ UNCHANGED <<WEATHER_CACHE, pc, location_key, cached_data, upstream, api_data,
                   response_data, response, raised, events, last_set, loaded, path>>

Init ==
    /\ WEATHER_CACHE = EmptyCache
    /\ now = 0
    /\ pc = [t \in Threads |-> "idle"]
    /\ location_key = [t \in Threads |-> ""]
    /\ cached_data = [t \in Threads |-> None]
    /\ upstream = [t \in Threads |-> NoReply]
    /\ api_data = [t \in Threads |-> None]
    /\ response_data = [t \in Threads |-> None]
    /\ response = [t \in Threads |-> NoResponse]
    /\ raised = [t \in Threads |-> "none"]
    /\ events = [t \in Threads |-> <<>>]
    /\ last_set = [k \in {} |-> [data |-> None, timestamp |-> 0, replaced |-> None]]
    /\ loaded = [t \in Threads |-> NotLoaded]
    /\ path = [t \in Threads |-> NoPath]

\* Requests served one at a time: a request is taken up only when no other
\* is in progress, by the first thread of the pool.
AllIdle == \A t \in Threads : pc[t] = "idle"
FirstThread(t) == \A u \in Threads : t <= u

Next ==
    \/ \E t \in Threads, key \in RequestKeys :
          AllIdle /\ FirstThread(t) /\ Receive(t, key)
    \/ \E t \in Threads : Validate(t)
    \/ \E t \in Threads : CheckCache(t)
    \/ \E t \in Threads, reply \in Replies : RemoteFetch(t, reply)
    \/ \E t \in Threads : Transform(t)
    \/ \E t \in Threads : CacheWrite(t)
    \/ \E t \in Threads : Respond(t)
    \/ \E t \in Threads : Finish(t)
    \/ \E d \in TickSteps : Tick(d)

Spec == Init /\ [][Next]_vars

(***************************************************************************)
(* The cache component on its own (src:340-427): a caller applies          *)
(* get_cached_weather and set_cached_weather directly, in any order, with  *)
(* any key and any payload the handler builds.                             *)
(***************************************************************************)
Payloads ==
    {BuildResponseData(LOCATIONS["eastern_sea"], b).v : b \in {FullBody, ZeroBody}}

\* get_cached_weather(key) is called and returns.
CallGet(t, key) ==
    /\ pc[t] = "idle"
    /\ LET got == get_cached_weather(WEATHER_CACHE, key, now)
       IN  /\ WEATHER_CACHE' = got.cache
           /\ cached_data' = [cached_data EXCEPT ![t] = got.ret]
    /\ location_key' = [location_key EXCEPT ![t] = key]
    /\ pc' = [pc EXCEPT ![t] = "got"]
    /\ UNCHANGED <<now, upstream, api_data, response_data, response, raised,
                   events, last_set, loaded, path>>

\* set_cached_weather(key, data) is called and returns.
CallSet(t, key, data) ==
    /\ pc[t] = "idle"
    /\ WEATHER_CACHE' = set_cached_weather(WEATHER_CACHE, key, data, now)
    /\ last_set' = Recorded(key, data)
    /\ location_key' = [location_key EXCEPT ![t] = key]
    /\ response_data' = [response_data EXCEPT ![t] = data]
    /\ pc' = [pc EXCEPT ![t] = "set"]
    /\ UNCHANGED <<now, cached_data, upstream, api_data, response, raised, events, loaded, path>>

\* The caller goes on; the call's arguments and result are gone.
Return(t) ==
    /\ pc[t] \in {"got", "set"}
    /\ pc' = [pc EXCEPT ![t] = "idle"]
    /\ location_key' = [location_key EXCEPT ![t] = ""]
    /\ cached_data' = [cached_data EXCEPT ![t] = None]
    /\ response_data' = [response_data EXCEPT ![t] = None]
    /\ UNCHANGED <<WEATHER_CACHE, now, upstream, api_data, response, raised,
                   events, last_set, loaded, path>>

NextCache ==
    \/ \E t \in Threads, key \in DOMAIN LOCATIONS : FirstThread(t) /\ CallGet(t, key)
    \/ \E t \in Threads, key \in DOMAIN LOCATIONS, data \in Payloads :
          FirstThread(t) /\ CallSet(t, key, data)
    \/ \E t \in Threads : Return(t)
    \/ \E d \in TickSteps : AllIdle /\ Tick(d)

SpecCache == Init /\ [][NextCache]_vars

(***************************************************************************)
(* Requests served concurrently.  app.run (src:729) starts the development *)
(* server, which hands every request to a thread of its own, and nothing   *)
(* in the source locks WEATHER_CACHE.  The threads interleave between the  *)
(* statements of get_cached_weather (src:356-399), each of which touches   *)
(* the dict once, so the function is taken one statement at a time here;   *)
(* the other stages of the handler are the actions above.                  *)
(***************************************************************************)
\* The keys and upstream replies of the concurrent requests.
ConcKeys == {"eastern_sea", "neytiri"}
ConcReplies ==
    {Reply("ok", 200, FullBody, "ValueError"), Reply("ok", 200, ZeroBody, "ValueError"),
     Reply("ConnectionError", 0, NotJson, "ValueError")}

\* src:356: `if location_key in WEATHER_CACHE:`; when the key is missing the
\* function returns None (src:399) and the handler goes on to the remote call.
CacheMember(t) ==
    /\ pc[t] = "cache_check"
    /\ events' = [events EXCEPT ![t] = @ \o <<"cache_read">>]
    /\ pc' = [pc EXCEPT ![t] = IF location_key[t] \in DOMAIN WEATHER_CACHE
                               THEN "cache_load" ELSE "remote_fetch"]
    /\ UNCHANGED <<WEATHER_CACHE, now, location_key, cached_data, upstream, api_data,
                   response_data, response, raised, last_set, loaded, path>>

\* src:363: `data, timestamp = WEATHER_CACHE[location_key]`; the subscript
\* raises KeyError when the key is no longer in the dict.
CacheLoad(t) ==
    /\ pc[t] = "cache_load"
    /\ IF location_key[t] \in DOMAIN WEATHER_CACHE
       THEN /\ loaded' = [loaded EXCEPT ![t] = WEATHER_CACHE[location_key[t]]]
            /\ pc' = [pc EXCEPT ![t] = "cache_age"]
            /\ UNCHANGED raised
       ELSE /\ raised' = [raised EXCEPT ![t] = "KeyError"]
            /\ pc' = [pc EXCEPT ![t] = "done"]
            /\ UNCHANGED loaded
    /\ UNCHANGED <<WEATHER_CACHE, now, location_key, cached_data, upstream, api_data,
                   response_data, response, events, last_set, path>>

\* Faulty variant: a hit stamps the entry with the time of the read.
CacheAge_Touch(t) ==
    /\ pc[t] = "cache_age"
    /\ IF IsFresh(loaded[t].timestamp, now)
       THEN /\ cached_data' = [cached_data EXCEPT ![t] = loaded[t].data]
            /\ WEATHER_CACHE' =
                  [k \in DOMAIN WEATHER_CACHE |->
                      IF k = location_key[t]
                      THEN [data |-> WEATHER_CACHE[k].data, timestamp |-> now]
                      ELSE WEATHER_CACHE[k]]
            /\ IF Truthy(loaded[t].data)
               THEN /\ response' = [response EXCEPT
                                      ![t] = HttpResponse(200, loaded[t].data)]
                    /\ pc' = [pc EXCEPT ![t] = "done"]
               ELSE /\ pc' = [pc EXCEPT ![t] = "remote_fetch"]
                    /\ UNCHANGED response
       ELSE /\ pc' = [pc EXCEPT ![t] = "cache_del"]
            /\ UNCHANGED <<WEATHER_CACHE, cached_data, response>>
    /\ UNCHANGED <<now, location_key, upstream, api_data,
                   response_data, raised, events, last_set, loaded, path>>

\* src:374-383: `if time() - timestamp < CACHE_DURATION: return data`, and the
\* handler's `if cached_data: return jsonify(cached_data)` (src:571-576).
CacheAge(t) ==
    /\ pc[t] = "cache_age"
    /\ IF IsFresh(loaded[t].timestamp, now)
       THEN /\ cached_data' = [cached_data EXCEPT ![t] = loaded[t].data]
            /\ IF Truthy(loaded[t].data)
               THEN /\ response' = [response EXCEPT
                                      ![t] = HttpResponse(200, loaded[t].data)]
                    /\ pc' = [pc EXCEPT ![t] = "done"]
               ELSE /\ pc' = [pc EXCEPT ![t] = "remote_fetch"]
                    /\ UNCHANGED response
       ELSE /\ pc' = [pc EXCEPT ![t] = "cache_del"]
            /\ UNCHANGED <<cached_data, response>>
    /\ UNCHANGED <<WEATHER_CACHE, now, location_key, upstream, api_data,
                   response_data, raised, events, last_set, loaded, path>>

\* src:390-399: `del WEATHER_CACHE[location_key]`, which raises KeyError when
\* the key is no longer in the dict, then `return None`.
CacheDel(t) ==
    /\ pc[t] = "cache_del"
    /\ IF location_key[t] \in DOMAIN WEATHER_CACHE
       THEN /\ WEATHER_CACHE' = CacheDelete(WEATHER_CACHE, location_key[t])
            /\ events' = [events EXCEPT ![t] = @ \o <<"cache_evict">>]
            /\ pc' = [pc EXCEPT ![t] = "remote_fetch"]
            /\ UNCHANGED raised
       ELSE /\ raised' = [raised EXCEPT ![t] = "KeyError"]
            /\ pc' = [pc EXCEPT ![t] = "done"]
            /\ UNCHANGED <<WEATHER_CACHE, events>>
    /\ UNCHANGED <<now, location_key, cached_data, upstream, api_data,
                   response_data, response, last_set, loaded, path>>

NextConc ==
    \/ \E t \in Threads, key \in ConcKeys : Receive(t, key)
    \/ \E t \in Threads : Validate(t)
    \/ \E t \in Threads : CacheMember(t)
    \/ \E t \in Threads : CacheLoad(t)
    \/ \E t \in Threads : CacheAge(t)
    \/ \E t \in Threads : CacheDel(t)
    \/ \E t \in Threads, reply \in ConcReplies : RemoteFetch(t, reply)
    \/ \E t \in Threads : Transform(t)
    \/ \E t \in Threads : CacheWrite(t)
    \/ \E t \in Threads : Respond(t)
    \/ \E t \in Threads : Finish(t)
    \/ \E d \in TickSteps : Tick(d)

SpecConc == Init /\ [][NextConc]_vars

(***************************************************************************)
(* The HTTP surface (src:437-511).  A URL path is the sequence of its      *)
(* segments after the leading slash: / is <<"">>, /wiki is <<"wiki">>,     *)
(* /character/jake is <<"character", "jake">>.  A rule is a sequence of    *)
(* literal segments and <variable> segments; the default converter of a    *)
(* variable takes any non-empty segment.                                   *)
(***************************************************************************)
Lit(s) == [lit |-> s]
Var(name) == [var |-> name]

\* The rules the @app.route decorators register, in order.
url_map ==
    << [rule |-> <<Lit("")>>, endpoint |-> "home"],
       [rule |-> <<Lit("wiki")>>, endpoint |-> "wiki"],
       [rule |-> <<Lit("character"), Var("character_name")>>,
        endpoint |-> "character_page"],
       [rule |-> <<Lit("get_weather"), Var("location_key")>>,
        endpoint |-> "get_weather"] >>

Matches(rule, p) ==
    /\ Len(rule) = Len(p)
    /\ \A i \in 1..Len(rule) :
          IF "lit" \in DOMAIN rule[i] THEN rule[i].lit = p[i] ELSE p[i] # ""

\* The endpoint of the first rule the path matches; "not_found" when none does.
Dispatch(p) ==
    LET hits == {i \in 1..Len(url_map) : Matches(url_map[i].rule, p)}
    IN  IF hits = {} THEN "not_found"
        ELSE url_map[CHOOSE i \in hits : \A j \in hits : i <= j].endpoint

\* render_template(name, **context): the page is the named template filled
\* with the context the handler passes.
render_template(name, context) ==
    Obj([template |-> Str(name), context |-> Obj(context)])

\* src:450, src:469, src:500
home == render_template("index.html", [x \in {} |-> None])
wiki == render_template("wiki.html", [x \in {} |-> None])
character_page(character_name) ==
    render_template("character.html", [character_name |-> Str(character_name)])

\* The framework's answer to a path no rule matches.
NotFound == HttpResponse(404, Str("Not Found"))

\* A GET request for path p reaches an idle thread and is dispatched.  The
\* page handlers return at once; get_weather goes through its stages.
Request(t, p) ==
    LET endpoint == Dispatch(p)
    IN  IF endpoint = "get_weather"
        THEN Receive(t, p[2])
        ELSE /\ pc[t] = "idle"
             /\ path' = [path EXCEPT ![t] = p]
             /\ response' = [response EXCEPT ![t] =
                   CASE endpoint = "home" -> HttpResponse(200, home)
                     [] endpoint = "wiki" -> HttpResponse(200, wiki)
                     [] endpoint = "character_page" ->
                            HttpResponse(200, character_page(p[2]))
                     [] OTHER -> NotFound]
             /\ pc' = [pc EXCEPT ![t] = "done"]
             /\ UNCHANGED <<WEATHER_CACHE, now, location_key, cached_data, upstream,
                            api_data, response_data, raised, events, last_set, loaded>>

\* The paths clients ask for.
CharacterNames == {"jake", "toruk makto"}
Paths ==
    {<<"">>, <<"wiki">>, <<"map">>, <<"wiki", "">>, <<"character", "">>}
    \cup {<<"character", c>> : c \in CharacterNames}
    \cup {WeatherPath(k) : k \in ConcKeys}

NextHttp ==
    \/ \E t \in Threads, p \in Paths : AllIdle /\ FirstThread(t) /\ Request(t, p)
    \/ \E t \in Threads : Validate(t)
    \/ \E t \in Threads : CheckCache(t)
    \/ \E t \in Threads, reply \in ConcReplies : RemoteFetch(t, reply)
    \/ \E t \in Threads : Transform(t)
    \/ \E t \in Threads : CacheWrite(t)
    \/ \E t \in Threads : Respond(t)
    \/ \E t \in Threads : Finish(t)
    \/ \E d \in TickSteps : Tick(d)

SpecHttp == Init /\ [][NextHttp]_vars

(***************************************************************************)
(* Concurrent requests under a fair scheduler.  A thread that has taken a  *)
(* request keeps being scheduled, so each statement of the handler that    *)
(* can run does run, and requests.get is given timeout=5 (src:249), so the *)
(* remote call returns, with a payload or with a failure.  Nothing obliges *)
(* a client to send a request, or the clock to advance.                    *)
(***************************************************************************)
\* Upstream replies: a complete forecast, a transport failure, and a body
\* that is JSON but not an object.
LiveReplies ==
    {Reply("ok", 200, FullBody, "ValueError"),
     Reply("ConnectionError", 0, NotJson, "ValueError"),
     Reply("ok", 200, ListBody, "ValueError")}

\* The next statement of the request thread t serves.
HandlerStep(t) ==
    \/ Validate(t)
    \/ CacheMember(t)
    \/ CacheLoad(t)
    \/ CacheAge(t)
    \/ CacheDel(t)
    \/ \E reply \in LiveReplies : RemoteFetch(t, reply)
    \/ Transform(t)
    \/ CacheWrite(t)
    \/ Respond(t)

NextLive ==
    \/ \E t \in Threads, key \in ConcKeys : Receive(t, key)
    \/ \E t \in Threads : HandlerStep(t)
    \/ \E t \in Threads : Finish(t)
    \/ \E d \in TickSteps : Tick(d)

Fairness == \A t \in Threads : WF_vars(HandlerStep(t)) /\ WF_vars(Finish(t))

SpecLive == Init /\ [][NextLive]_vars /\ Fairness

(***************************************************************************)
(* Properties                                                              *)
(***************************************************************************)
Has(seq, e) == \E i \in 1..Len(seq) : seq[i] = e
Fields(v) == IF v.t = "obj" THEN DOMAIN v.o ELSE {}
Age(key) == now - WEATHER_CACHE[key].timestamp

\* C1: a request whose key is not in LOCATIONS never gets past validation,
\* reads no cache entry, makes no remote call, raises nothing, and ends with
\* HTTP 404 and a body of exactly the fields error and message.
C1_UnknownKeyNotFound ==
    \A t \in Threads :
        (pc[t] # "idle" /\ location_key[t] \notin DOMAIN LOCATIONS) =>
            /\ pc[t] \in {"validate", "done"}
            /\ events[t] = <<>>
            /\ raised[t] = "none"
            /\ pc[t] = "done" =>
                  /\ response[t].status = 404
                  /\ Fields(response[t].body) = {"error", "message"}

C1_Witness ==
    \E t \in Threads :
        /\ pc[t] = "done"
        /\ location_key[t] \in UnknownKeys
        /\ response[t].status = 404
        /\ DOMAIN WEATHER_CACHE # {}
        /\ now > 0

\* C2: when the cache check of a request finds an entry for its key that is
\* younger than CACHE_DURATION, the request ends there with HTTP 200 and
\* exactly the stored payload, and has made no remote call.
C2_FreshEntryServed ==
    [][\A t \in Threads :
        LET key == location_key[t]
        IN  (/\ pc[t] = "cache_check"
             /\ pc'[t] # "cache_check"
             /\ key \in DOMAIN WEATHER_CACHE
             /\ Age(key) < CACHE_DURATION) =>
                /\ pc'[t] = "done"
                /\ response'[t] = HttpResponse(200, WEATHER_CACHE[key].data)
                /\ raised'[t] = "none"
                /\ ~Has(events'[t], "api_call")]_vars

C2_Witness ==
    \E t \in Threads :
        /\ pc[t] = "done"
        /\ response[t].status = 200
        /\ events[t] = <<"cache_read">>
        /\ location_key[t] \in DOMAIN WEATHER_CACHE
        /\ Age(location_key[t]) > 0
        /\ response[t].body = WEATHER_CACHE[location_key[t]].data

\* C3: when the cache check of a request finds an entry for its key that is
\* CACHE_DURATION old or older, the entry is removed and nothing is returned
\* yet; the request's next step is the remote call; and a request that
\* evicted an entry answers 200 only with the payload it built itself after
\* that call.
C3_StaleEntryEvictedThenFetched ==
    [][\A t \in Threads :
        LET key == location_key[t]
        IN  /\ (/\ pc[t] = "cache_check"
                /\ pc'[t] # "cache_check"
                /\ key \in DOMAIN WEATHER_CACHE
                /\ Age(key) >= CACHE_DURATION) =>
                   /\ key \notin DOMAIN WEATHER_CACHE'
                   /\ pc'[t] = "remote_fetch"
                   /\ response'[t] = NoResponse
                   /\ events'[t] = <<"cache_read", "cache_evict">>
            /\ (pc[t] = "remote_fetch" /\ pc'[t] # "remote_fetch") =>
                   /\ upstream'[t] \in Replies
                   /\ events'[t] = events[t] \o <<"api_call">>
            /\ (/\ pc'[t] = "done"
                /\ Has(events'[t], "cache_evict")
                /\ response'[t].status = 200) =>
                   /\ events'[t] = <<"cache_read", "cache_evict", "api_call", "cache_write">>
                   /\ response'[t].body = response_data'[t]]_vars

C3_Witness ==
    \E t \in Threads :
        /\ pc[t] = "done"
        /\ events[t] = <<"cache_read", "cache_evict", "api_call", "cache_write">>
        /\ response[t].status = 200

\* C4: when the remote client has returned None, the request ends with HTTP
\* 500 and a body of exactly the fields error, message and location, the
\* location being the display name of the requested key.
C4_AbsentResultIs500 ==
    [][\A t \in Threads :
        (pc[t] = "transform" /\ api_data[t] = None /\ pc'[t] # "transform") =>
            /\ pc'[t] = "done"
            /\ raised'[t] = "none"
            /\ response'[t].status = 500
            /\ Fields(response'[t].body) = {"error", "message", "location"}
            /\ response'[t].body.o.location = Str(LOCATIONS[location_key[t]].name)]_vars

C4_Witness ==
    \E t \in Threads :
        /\ pc[t] = "done"
        /\ response[t].status = 500
        /\ upstream[t].transport = "ok"
        /\ upstream[t].body = NullBody
        /\ response[t].body.o.location = Str("Eastern Sea")

\* C5: no exception leaves the get_weather handler, whatever the key, the
\* cache and the remote reply are.
C5_NoExceptionEscapes == \A t \in Threads : raised[t] = "none"

\* A reply that is a failure of the remote call: no response, an HTTP error
\* status, or a body that is not JSON.
ReplyFailed(r) == r.transport # "ok" \/ r.status >= 400 \/ r.body = NotJson

\* C6: once the remote client has been called, it has raised nothing: after
\* a failed reply (timeout, transport error, HTTP error status, body that is
\* not JSON) api_data is None and the request ends with one and the same 500
\* response whatever the cause; after any other reply api_data is the parsed
\* body, and an exception can only come from a body that is not None.
C6_ClientNeverRaises ==
    \A t \in Threads :
        upstream[t] # NoReply =>
            IF ReplyFailed(upstream[t])
            THEN /\ api_data[t] = None
                 /\ raised[t] = "none"
                 /\ pc[t] \in {"transform", "done"}
                 /\ pc[t] = "done" =>
                       response[t] =
                          HttpResponse(500,
                             Obj([error |-> Str("Weather service unavailable"),
                                  message |-> Str("Failed to fetch weather data. Please try again later."),
                                  location |-> Str(LOCATIONS[location_key[t]].name)]))
            ELSE /\ api_data[t] = upstream[t].body
                 /\ raised[t] # "none" => api_data[t] # None

C6_Witness ==
    \E t \in Threads :
        /\ pc[t] = "done"
        /\ upstream[t] = Reply("ok", 200, NotJson, "ValueError")
        /\ response[t].status = 500

\* A request that ended with HTTP 200 on a payload it fetched itself.
FreshSuccess(t) ==
    /\ pc[t] = "done"
    /\ response[t].status = 200
    /\ Has(events[t], "api_call")

\* The hourly series `name` of a remote payload is missing (with or without
\* the hourly block) or empty.
SeriesAbsent(body, name) ==
    /\ body.t = "obj"
    /\ \/ "hourly" \notin DOMAIN body.o
       \/ /\ body.o.hourly.t = "obj"
          /\ \/ name \notin DOMAIN body.o.hourly.o
             \/ body.o.hourly.o[name] = List(<<>>)

\* C7: in a fresh success response humidity is None when the remote
\* relativehumidity_2m series is missing or empty, and pressure is None when
\* the pressure_msl series is missing or empty.
C7_AbsentSeriesGivesNone ==
    \A t \in Threads :
        FreshSuccess(t) =>
            /\ SeriesAbsent(upstream[t].body, "relativehumidity_2m") =>
                  response[t].body.o.humidity = None
            /\ SeriesAbsent(upstream[t].body, "pressure_msl") =>
                  response[t].body.o.pressure = None

C7_Witness ==
    \E t \in Threads :
        /\ FreshSuccess(t)
        /\ upstream[t].body = NoHourlyBody
        /\ response[t].body.o.humidity = None
        /\ response[t].body.o.pressure = None

\* The hourly series `name` of a remote payload starts with a number.
HasNumericFirst(body, name) ==
    /\ body.t = "obj"
    /\ "hourly" \in DOMAIN body.o
    /\ body.o.hourly.t = "obj"
    /\ name \in DOMAIN body.o.hourly.o
    /\ body.o.hourly.o[name].t = "list"
    /\ Len(body.o.hourly.o[name].l) > 0
    /\ body.o.hourly.o[name].l[1].t = "num"

FirstOf(body, name) == body.o.hourly.o[name].l[1]

\* C8: in a fresh success response humidity is the first relativehumidity_2m
\* sample and pressure is the first pressure_msl sample rounded to two
\* decimals, for every numeric first sample, 0 included.
C8_FirstSampleReported ==
    \A t \in Threads :
        FreshSuccess(t) =>
            /\ HasNumericFirst(upstream[t].body, "relativehumidity_2m") =>
                  response[t].body.o.humidity =
                     FirstOf(upstream[t].body, "relativehumidity_2m")
            /\ HasNumericFirst(upstream[t].body, "pressure_msl") =>
                  response[t].body.o.pressure =
                     Num(RoundThousandths(FirstOf(upstream[t].body, "pressure_msl").n))

\* C9: a get_cached_weather(key) call returns the stored payload and leaves
\* the cache as it is when an entry for key exists and is younger than
\* CACHE_DURATION; deletes that entry, and only that entry, and returns None
\* when the entry is CACHE_DURATION old or older; returns None and leaves the
\* cache as it is when there is no entry.
C9_GetCachedWeatherContract ==
    [][\A t \in Threads :
        LET key == location_key[t]
        IN  (pc[t] = "cache_check" /\ pc'[t] # "cache_check") =>
               IF key \in DOMAIN WEATHER_CACHE /\ Age(key) < CACHE_DURATION
               THEN /\ cached_data'[t] = WEATHER_CACHE[key].data
                    /\ WEATHER_CACHE' = WEATHER_CACHE
               ELSE IF key \in DOMAIN WEATHER_CACHE
               THEN /\ cached_data'[t] = None
                    /\ DOMAIN WEATHER_CACHE' = DOMAIN WEATHER_CACHE \ {key}
                    /\ \A k \in DOMAIN WEATHER_CACHE' : WEATHER_CACHE'[k] = WEATHER_CACHE[k]
               ELSE /\ cached_data'[t] = None
                    /\ WEATHER_CACHE' = WEATHER_CACHE]_vars

\* an entry evicted at the age of exactly CACHE_DURATION, another key's entry kept
C9_Witness ==
    \E t \in Threads :
        /\ pc[t] = "remote_fetch"
        /\ events[t] = <<"cache_read", "cache_evict">>
        /\ now - last_set[location_key[t]].timestamp = CACHE_DURATION
        /\ DOMAIN WEATHER_CACHE # {}

\* C10: the entry under a key is the payload and the clock of the latest
\* set_cached_weather for that key, whatever was stored before; right after
\* set_cached_weather(key, data) the entry is (data, now); and a
\* get_cached_weather(key) returns the payload of the latest set when less
\* than CACHE_DURATION has passed since that set, and None otherwise.
C10_SetReplacesEntry ==
    /\ \A k \in DOMAIN WEATHER_CACHE :
          /\ k \in DOMAIN last_set
          /\ WEATHER_CACHE[k].data = last_set[k].data
          /\ WEATHER_CACHE[k].timestamp = last_set[k].timestamp
    /\ \A t \in Threads :
          /\ pc[t] = "set" =>
                /\ location_key[t] \in DOMAIN WEATHER_CACHE
                /\ WEATHER_CACHE[location_key[t]] =
                      [data |-> response_data[t], timestamp |-> now]
          /\ (pc[t] = "got" /\ location_key[t] \in DOMAIN last_set) =>
                LET latest == last_set[location_key[t]]
                IN  IF now - latest.timestamp < CACHE_DURATION
                    THEN cached_data[t] = latest.data
                    ELSE cached_data[t] = None

\* a get that returns the payload of a set which replaced a different, still
\* stored payload
C10_Witness ==
    \E t \in Threads :
        /\ pc[t] = "got"
        /\ location_key[t] \in DOMAIN last_set
        /\ cached_data[t] = last_set[location_key[t]].data
        /\ last_set[location_key[t]].replaced # None
        /\ last_set[location_key[t]].replaced # cached_data[t]
        /\ now - last_set[location_key[t]].timestamp > 0

\* Threads t and u have both come to the end of a request for the same key in
\* which each called the remote client and stored its payload.
BothFetched(t, u) ==
    /\ t # u
    /\ pc[t] = "done" /\ pc[u] = "done"
    /\ location_key[t] = location_key[u]
    /\ Has(events[t], "api_call") /\ Has(events[u], "api_call")
    /\ Has(events[t], "cache_write") /\ Has(events[u], "cache_write")

\* C11: two concurrent requests for one key can both miss the cache and both
\* call the remote client (the witness); once both have stored, the entry
\* under the key is the payload and clock of the set_cached_weather call that
\* ran last, which is the payload of one of the two requests.
C11_LastWriterWins ==
    \A t, u \in Threads :
        BothFetched(t, u) =>
            LET key == location_key[t]
            IN  /\ key \in DOMAIN WEATHER_CACHE
                /\ WEATHER_CACHE[key].data = last_set[key].data
                /\ WEATHER_CACHE[key].timestamp = last_set[key].timestamp
                /\ last_set[key].data \in {response_data[t], response_data[u]}

\* Both requests found the key missing, both fetched, and the payload of t
\* has overwritten the different payload of u.
C11_Witness ==
    \E t, u \in Threads :
        /\ BothFetched(t, u)
        /\ events[t] = <<"cache_read", "api_call", "cache_write">>
        /\ events[u] = <<"cache_read", "api_call", "cache_write">>
        /\ response_data[t] # response_data[u]
        /\ WEATHER_CACHE[location_key[t]].data = response_data[t]
        /\ last_set[location_key[t]].replaced = response_data[u]

\* How many times the operation e occurs in a request's record.
Count(seq, e) == Cardinality({i \in 1..Len(seq) : seq[i] = e})

\* C12: a get_weather request calls the remote client at most once: not at
\* all when it ends in 404 or is answered from the cache, and exactly once
\* when the key is known and the cache gave nothing, whether or not the call
\* failed.
C12_RemoteCalledAtMostOnce ==
    \A t \in Threads :
        LET calls == Count(events[t], "api_call")
        IN  /\ calls <= 1
            /\ pc[t] = "done" /\ response[t].status = 404 => calls = 0
            /\ pc[t] = "done" /\ Truthy(cached_data[t]) => calls = 0
            /\ pc[t] = "done" /\ location_key[t] \in DOMAIN LOCATIONS
                 /\ ~Truthy(cached_data[t]) => calls = 1
            /\ pc[t] = "done" /\ ReplyFailed(upstream[t]) /\ calls > 0 =>
                 /\ calls = 1
                 /\ response[t].status = 500

\* A request whose one remote call failed has ended in 500.
C12_Witness ==
    \E t \in Threads :
        /\ pc[t] = "done"
        /\ ReplyFailed(upstream[t])
        /\ events[t] = <<"cache_read", "api_call">>
        /\ response[t].status = 500

\* A success payload none of whose current-weather fields has a value.
Partial(payload) ==
    /\ {"temp", "wind", "wind_direction", "weather_code"} \subseteq Fields(payload)
    /\ payload.o.temp = None
    /\ payload.o.wind = None
    /\ payload.o.wind_direction = None
    /\ payload.o.weather_code = None

\* C13: no partial result: no 200 response carries a payload whose temp, wind,
\* wind_direction and weather_code are all absent, and no such payload is in
\* the cache.
C13_NoPartialResult ==
    /\ \A t \in Threads : response[t].status = 200 => ~Partial(response[t].body)
    /\ \A k \in DOMAIN WEATHER_CACHE : ~Partial(WEATHER_CACHE[k].data)

\* C14: every key of WEATHER_CACHE is a key of LOCATIONS.
C14_CacheKeysInRegistry == DOMAIN WEATHER_CACHE \subseteq DOMAIN LOCATIONS

\* The cache holds an entry for every location, and a request for a key the
\* registry does not hold has just been answered.
C14_Witness ==
    /\ DOMAIN WEATHER_CACHE = DOMAIN LOCATIONS
    /\ \E t \in Threads :
          /\ pc[t] = "done"
          /\ location_key[t] \in UnknownKeys
          /\ response[t].status = 404

\* The routes the interface documents: /, /wiki, /map, /character/<name> and
\* /get_weather/<key>.
DocumentedPaths ==
    {<<"">>, <<"wiki">>, <<"map">>}
    \cup {<<"character", c>> : c \in CharacterNames}
    \cup {WeatherPath(k) : k \in ConcKeys}

IsPage(body) == "template" \in Fields(body)

\* C15: every documented route has a handler; a GET /map request is answered
\* with a page, not with the framework's 404.
C15_DocumentedRoutesHandled ==
    \A t \in Threads :
        pc[t] = "done" /\ path[t] \in DocumentedPaths =>
            /\ Dispatch(path[t]) # "not_found"
            /\ path[t] = <<"map">> =>
                 response[t].status = 200 /\ IsPage(response[t].body)

\* str.title() of the character names asked for.
TitleCase(name) ==
    CASE name = "jake" -> "Jake"
      [] name = "toruk makto" -> "Toruk Makto"
      [] OTHER -> name

\* The records a page's template is given: its context, and every dict in it.
ContextRecords(page) ==
    {page.o.context}
    \cup {page.o.context.o[f] : f \in {g \in DOMAIN page.o.context.o :
                                          page.o.context.o[g].t = "obj"}}

\* C16: a request for /character/<name> with a name no registry holds is
\* answered with a placeholder record: the title-cased name, an image
\* filename, a description and stats.
C16_PlaceholderSynthesized ==
    \A t \in Threads :
        pc[t] = "done" /\ Dispatch(path[t]) = "character_page" =>
            /\ response[t].status = 200
            /\ \E rec \in ContextRecords(response[t].body) :
                  /\ {"name", "image", "description", "stats"} \subseteq Fields(rec)
                  /\ rec.o.name = Str(TitleCase(path[t][2]))

\* C17: whatever the interleaving of concurrent requests, get_cached_weather
\* does not fail: no request that found its key in WEATHER_CACHE goes on to
\* read or delete the entry after another request deleted it (KeyError).
C17_CacheReadNeverFails == \A t \in Threads : raised[t] # "KeyError"

\* The step in which the request of thread t calls set_cached_weather.
WritesCache(t) == events'[t] = events[t] \o <<"cache_write">>

\* C18: within a request the stages come in one order.  The cache is written
\* only by a request whose key is in the registry, whose cache check gave
\* nothing, whose remote call returned a payload, and which has not yet
\* responded; an entry appears or changes only in such a step; and the body
\* of the 200 response that follows is the payload that request stored.
C18_PipelineOrdered ==
    [][/\ \A t \in Threads :
             LET key == location_key[t]
             IN  /\ WritesCache(t) =>
                      /\ key \in DOMAIN LOCATIONS
                      /\ events[t] \in {<<"cache_read", "api_call">>,
                                        <<"cache_read", "cache_evict", "api_call">>}
                      /\ ~Truthy(cached_data[t])
                      /\ api_data[t] # None
                      /\ response[t] = NoResponse
                      /\ WEATHER_CACHE'[key] = [data |-> response_data[t],
                                                timestamp |-> now]
                      /\ pc'[t] = "respond"
                 /\ pc[t] = "respond" =>
                      /\ response_data'[t] = response_data[t]
                      /\ pc'[t] \in {"respond", "done"}
                      /\ pc'[t] = "done" =>
                           /\ response'[t] = HttpResponse(200, response_data[t])
                           /\ events'[t][Len(events'[t])] = "cache_write"
                 /\ (pc[t] # "done" /\ pc'[t] = "done" /\ response'[t].status = 200
                       /\ Has(events'[t], "api_call")) =>
                      pc[t] = "respond"
       /\ \A k \in DOMAIN WEATHER_CACHE' :
             (k \notin DOMAIN WEATHER_CACHE \/ WEATHER_CACHE'[k] # WEATHER_CACHE[k]) =>
                \E t \in Threads : WritesCache(t) /\ location_key[t] = k]_vars

\* A request has fetched, stored and answered 200, and the cache holds the
\* payload it returned.
C18_Witness ==
    \E t \in Threads :
        /\ FreshSuccess(t)
        /\ events[t] = <<"cache_read", "api_call", "cache_write">>
        /\ location_key[t] \in DOMAIN WEATHER_CACHE
        /\ WEATHER_CACHE[location_key[t]].data = response[t].body

C20_ReadsDoNotExtendLife ==
    [][\A t \in Threads :
          LET key == location_key[t]
          IN  /\ (pc[t] \in {"cache_check", "cache_load", "cache_age"}
                    /\ pc'[t] # pc[t]) =>
                   WEATHER_CACHE' = WEATHER_CACHE
              /\ (pc[t] = "cache_age" /\ pc'[t] = "done") =>
                   /\ now - loaded[t].timestamp < CACHE_DURATION
                   /\ response'[t] = HttpResponse(200, loaded[t].data)
              /\ (pc[t] = "cache_load" /\ pc'[t] = "cache_age") =>
                   /\ loaded'[t].data = last_set[key].data
                   /\ loaded'[t].timestamp = last_set[key].timestamp
              /\ (pc[t] = "cache_age" /\ pc'[t] # "cache_age"
                    /\ now >= loaded[t].timestamp + CACHE_DURATION) =>
                   /\ pc'[t] = "cache_del"
                   /\ cached_data'[t] = None
                   /\ response'[t] = NoResponse]_vars

\* One request was answered from an entry, and a later read of the same
\* entry, CACHE_DURATION or more after it was stored, has evicted it.
C20_Witness ==
    \E t, u \in Threads :
        /\ pc[t] = "done"
        /\ response[t].status = 200
        /\ events[t] = <<"cache_read">>
        /\ location_key[u] = location_key[t]
        /\ events[u] = <<"cache_read", "cache_evict">>
        /\ loaded[u] = loaded[t]
        /\ loaded[u].timestamp = last_set[location_key[u]].timestamp
        /\ now >= loaded[u].timestamp + CACHE_DURATION

\* The step is one of the request thread t serves.
StepOf(t) == pc'[t] # pc[t]

\* C21: a step of a request for key k leaves every entry under another key
\* as it is, payload and timestamp, and keeps it stored; no step of a request
\* whose key the registry does not hold, up to and including its 404,
\* changes WEATHER_CACHE at all.  (LOCATIONS is a definition here: no
\* statement of the source assigns to it or to one of its records.)
C21_OtherKeysUntouched ==
    [][\A t \in Threads :
          StepOf(t) =>
             /\ \A k \in DOMAIN WEATHER_CACHE :
                   (k # location_key[t] /\ k # location_key'[t]) =>
                      /\ k \in DOMAIN WEATHER_CACHE'
                      /\ WEATHER_CACHE'[k] = WEATHER_CACHE[k]
             /\ \A k \in DOMAIN WEATHER_CACHE' :
                   (k # location_key[t] /\ k # location_key'[t]) =>
                      k \in DOMAIN WEATHER_CACHE
             /\ (location_key[t] \in UnknownKeys \/ location_key'[t] \in UnknownKeys) =>
                   WEATHER_CACHE' = WEATHER_CACHE
             /\ (pc'[t] = "done" /\ response'[t].status = 404) =>
                   /\ WEATHER_CACHE' = WEATHER_CACHE
                   /\ events'[t] = <<>>]_vars

\* A request evicted the expired entry of its key while another key's
\* entry, still fresh, stayed stored.
C21_Witness ==
    \E t \in Threads, k \in DOMAIN WEATHER_CACHE :
        /\ pc[t] = "remote_fetch"
        /\ events[t] = <<"cache_read", "cache_evict">>
        /\ k # location_key[t]
        /\ WEATHER_CACHE[k].data = last_set[k].data
        /\ WEATHER_CACHE[k].timestamp = last_set[k].timestamp
        /\ now - WEATHER_CACHE[k].timestamp < CACHE_DURATION

\* Thread t calls get_cached_weather(k) in this step.
Gets(t, k) == pc[t] = "idle" /\ pc'[t] = "got" /\ location_key'[t] = k

\* C22: expiry is lazy.  A step in which time passes leaves WEATHER_CACHE as
\* it is; an entry leaves the cache only in a get_cached_weather call for
\* its own key made when the entry is CACHE_DURATION old or older, and that
\* call returns None; a call for another key keeps the entry, expired or not.
C22_LazyExpiry ==
    [][/\ now' # now => WEATHER_CACHE' = WEATHER_CACHE
       /\ \A k \in DOMAIN WEATHER_CACHE :
             /\ k \notin DOMAIN WEATHER_CACHE' =>
                   \E t \in Threads :
                      /\ Gets(t, k)
                      /\ now - WEATHER_CACHE[k].timestamp >= CACHE_DURATION
                      /\ cached_data'[t] = None
             /\ (\E t \in Threads, j \in DOMAIN LOCATIONS : j # k /\ Gets(t, j)) =>
                   /\ k \in DOMAIN WEATHER_CACHE'
                   /\ WEATHER_CACHE'[k] = WEATHER_CACHE[k]]_vars

\* An entry past the TTL is still stored after a get_cached_weather call for
\* another key.
C22_Witness ==
    \E t \in Threads, k \in DOMAIN WEATHER_CACHE :
        /\ pc[t] = "got"
        /\ location_key[t] # k
        /\ now - WEATHER_CACHE[k].timestamp > CACHE_DURATION

\* The fields of the payload a successful request returns (src:638-691).
SuccessFields ==
    {"location", "temp", "wind", "wind_direction", "weather_code", "humidity",
     "pressure", "image", "status", "status_color"}

\* C23: every entry of WEATHER_CACHE is stored under a key of LOCATIONS and
\* holds a payload of the success shape whose location, image, status and
\* status_color are the name, image, status and status_color of that key's
\* record; no error body is stored.
C23_CachedPayloadMatchesKey ==
    \A k \in DOMAIN WEATHER_CACHE :
        /\ k \in DOMAIN LOCATIONS
        /\ LET payload == WEATHER_CACHE[k].data
           IN  /\ Fields(payload) = SuccessFields
               /\ payload.o.location = Str(LOCATIONS[k].name)
               /\ payload.o.image = Str(LOCATIONS[k].image)
               /\ payload.o.status = Str(LOCATIONS[k].status)
               /\ payload.o.status_color = Str(LOCATIONS[k].status_color)

\* Both locations are cached, each under its own key, and a request has just
\* been answered with an error.
C23_Witness ==
    /\ DOMAIN WEATHER_CACHE = DOMAIN LOCATIONS
    /\ \A j, k \in DOMAIN WEATHER_CACHE :
          j # k => WEATHER_CACHE[j].data.o.location # WEATHER_CACHE[k].data.o.location
    /\ \E t \in Threads :
          /\ pc[t] = "done"
          /\ response[t].status \in {404, 500}

\* The request of thread t has ended with one of the four responses of the
\* handler: 404 for an unknown key, 200 from the cache, 500 after an absent
\* remote result, 200 after a fresh fetch.
OneOfFour(t) ==
    /\ raised[t] = "none"
    /\ \/ response[t].status = 404 /\ events[t] = <<>>
       \/ response[t].status = 200 /\ events[t] = <<"cache_read">>
       \/ response[t].status = 500 /\ Has(events[t], "api_call")
                                   /\ ~Has(events[t], "cache_write")
       \/ response[t].status = 200 /\ Has(events[t], "api_call")
                                   /\ Has(events[t], "cache_write")

\* Under the fair scheduler every request taken up comes to its end.
RequestsTerminate == \A t \in Threads : (pc[t] # "idle") ~> (pc[t] = "done")

\* C24: every get_weather request ends with exactly one response, one of
\* 404, 200 from the cache, 500 and 200 from a fresh fetch.
C24_EndsInOneOfFour == \A t \in Threads : pc[t] = "done" => OneOfFour(t)

====
